---- MODULE Spec2Model ----
(***************************************************************************)
(* Model of src/app.py: the column matcher (detect_columns), the manual    *)
(* column mapping and value normalisation (preprocess_data) and the        *)
(* department selection and aggregation of the page script.                *)
(*                                                                         *)
(* Python strings are tuples of one-character strings, so that lower(),    *)
(* replace(), strip(), the substring test and the numeric parse are        *)
(* computed character by character as the code computes them.  A data      *)
(* frame is a record [none, cols, rows]: cols the column labels in order   *)
(* (labels may repeat after a rename), rows a sequence of rows, each a     *)
(* sequence of cells aligned with cols.  A cell is a record [k, s, n]:     *)
(* k = "str" (text s), k = "num" (number n) or k = "nan".                  *)
(***************************************************************************)
EXTENDS Integers, Sequences, FiniteSets, TLC

\* ------------------------------------------------------------------------
\* Characters
\* ------------------------------------------------------------------------
UpperCase == <<"A", "B", "C", "D", "E", "F", "G", "H", "I", "J", "K", "L", "M", "N", "O", "P", "Q", "R", "S", "T", "U", "V", "W", "X", "Y", "Z">>
LowerCase == <<"a", "b", "c", "d", "e", "f", "g", "h", "i", "j", "k", "l", "m", "n", "o", "p", "q", "r", "s", "t", "u", "v", "w", "x", "y", "z">>
Digits == <<"0", "1", "2", "3", "4", "5", "6", "7", "8", "9">>
CodePoints == <<" ", ",", "-", ".", "0", "1", "2", "3", "4", "5", "6", "7", "8", "9", "A", "B", "C", "D", "E", "F", "G", "H", "I", "J", "K", "L", "M", "N", "O", "P", "Q", "R", "S", "T", "U", "V", "W", "X", "Y", "Z", "_", "a", "b", "c", "d", "e", "f", "g", "h", "i", "j", "k", "l", "m", "n", "o", "p", "q", "r", "s", "t", "u", "v", "w", "x", "y", "z">>

\* ------------------------------------------------------------------------
\* String literals of app.py
\* ------------------------------------------------------------------------
\* required_cols (line 62) and the keys of patterns (lines 33-36)
Year == <<"Y", "e", "a", "r">>
Quarter == <<"Q", "u", "a", "r", "t", "e", "r">>
Department == <<"D", "e", "p", "a", "r", "t", "m", "e", "n", "t">>
NoOfPatients == <<"N", "o", ".", " ", "o", "f", " ", "P", "a", "t", "i", "e", "n", "t", "s">>
\* the search terms of patterns (lines 33-36)
YearTerms ==
    << <<"y", "e", "a", "r">>,
       <<"y", "r">>,
       <<"y", "e", "a", "r", "s">>,
       <<"d", "a", "t", "e", "_", "y", "e", "a", "r">>,
       <<"t", "i", "m", "e", "_", "y", "e", "a", "r">> >>
QuarterTerms ==
    << <<"q", "u", "a", "r", "t", "e", "r">>,
       <<"q", "t", "r">>,
       <<"q">>,
       <<"q", "u", "a", "r", "t", "e", "r", "s">>,
       <<"p", "e", "r", "i", "o", "d">> >>
DepartmentTerms ==
    << <<"d", "e", "p", "a", "r", "t", "m", "e", "n", "t">>,
       <<"d", "e", "p", "t">>,
       <<"d", "e", "p">>,
       <<"w", "a", "r", "d">>,
       <<"u", "n", "i", "t">>,
       <<"d", "i", "v", "i", "s", "i", "o", "n">>,
       <<"s", "e", "c", "t", "i", "o", "n">> >>
PatientsTerms ==
    << <<"p", "a", "t", "i", "e", "n", "t", "s">>,
       <<"p", "a", "t", "i", "e", "n", "t">>,
       <<"c", "o", "u", "n", "t">>,
       <<"n", "u", "m", "b", "e", "r">>,
       <<"t", "o", "t", "a", "l">>,
       <<"n", "u", "m", "_", "p", "a", "t", "i", "e", "n", "t", "s">>,
       <<"p", "a", "t", "i", "e", "n", "t", "_", "c", "o", "u", "n", "t">>,
       <<"n", "o", "_", "o", "f", "_", "p", "a", "t", "i", "e", "n", "t", "s">>,
       <<"p", "a", "t", "i", "e", "n", "t", "_", "t", "o", "t", "a", "l">> >>
\* the literals of the quarter standardisation (lines 123-145)
FirstForms ==
    << <<"1">>,
       <<"1", "S", "T">>,
       <<"F", "I", "R", "S", "T">> >>
SecondForms ==
    << <<"2">>,
       <<"2", "N", "D">>,
       <<"S", "E", "C", "O", "N", "D">> >>
ThirdForms ==
    << <<"3">>,
       <<"3", "R", "D">>,
       <<"T", "H", "I", "R", "D">> >>
FourthForms ==
    << <<"4">>,
       <<"4", "T", "H">>,
       <<"F", "O", "U", "R", "T", "H">> >>
Q1 == <<"Q", "1">>
Q2 == <<"Q", "2">>
Q3 == <<"Q", "3">>
Q4 == <<"Q", "4">>
QUARTER == <<"Q", "U", "A", "R", "T", "E", "R">>
\* the first option of the manual mapping select box (line 79)
NoneOption == <<"N", "o", "n", "e">>

\* ------------------------------------------------------------------------
\* Python string operations
\* ------------------------------------------------------------------------
Range(s) == {s[i] : i \in 1..Len(s)}

Position(c, table) == CHOOSE i \in 1..Len(table) : table[i] = c

lower_char(c) == IF c \in Range(UpperCase) THEN LowerCase[Position(c, UpperCase)] ELSE c

upper_char(c) == IF c \in Range(LowerCase) THEN UpperCase[Position(c, LowerCase)] ELSE c

\* str.lower()
lower(s) == [i \in 1..Len(s) |-> lower_char(s[i])]

\* str.upper()
upper(s) == [i \in 1..Len(s) |-> upper_char(s[i])]

\* str.replace(old, new), old not empty: the occurrences from left to right
RECURSIVE replace(_, _, _)
replace(s, old, new) ==
    IF Len(s) < Len(old) THEN s
    ELSE IF SubSeq(s, 1, Len(old)) = old
         THEN new \o replace(SubSeq(s, Len(old) + 1, Len(s)), old, new)
         ELSE <<s[1]>> \o replace(Tail(s), old, new)

\* `term in col_clean`
contains(s, term) ==
    \E i \in 0..(Len(s) - Len(term)) : SubSeq(s, i + 1, i + Len(term)) = term

RECURSIVE lstrip(_)
lstrip(s) == IF s # <<>> /\ s[1] = " " THEN lstrip(Tail(s)) ELSE s

RECURSIVE rstrip(_)
rstrip(s) == IF s # <<>> /\ s[Len(s)] = " " THEN rstrip(SubSeq(s, 1, Len(s) - 1)) ELSE s

\* str.strip()
strip(s) == rstrip(lstrip(s))

\* str.isdigit()
isdigit(s) == s # <<>> /\ \A i \in 1..Len(s) : s[i] \in Range(Digits)

\* str.startswith(prefix)
startswith(s, prefix) == Len(s) >= Len(prefix) /\ SubSeq(s, 1, Len(prefix)) = prefix

RECURSIVE DecimalValue(_)
DecimalValue(s) ==
    IF s = <<>> THEN 0
    ELSE 10 * DecimalValue(SubSeq(s, 1, Len(s) - 1)) + (Position(s[Len(s)], Digits) - 1)

RECURSIVE DecimalDigits(_)
DecimalDigits(n) ==
    IF n < 10 THEN <<Digits[n + 1]>>
    ELSE DecimalDigits(n \div 10) \o <<Digits[(n % 10) + 1]>>

\* str(n) of an integer
IntToStr(n) == IF n < 0 THEN <<"-">> \o DecimalDigits(0 - n) ELSE DecimalDigits(n)

\* the order of Python strings: by code point, a proper prefix first
RECURSIVE StrLess(_, _)
StrLess(a, b) ==
    IF b = <<>> THEN FALSE
    ELSE IF a = <<>> THEN TRUE
    ELSE IF a[1] = b[1] THEN StrLess(Tail(a), Tail(b))
    ELSE Position(a[1], CodePoints) < Position(b[1], CodePoints)

\* ------------------------------------------------------------------------
\* Cells and data frames
\* ------------------------------------------------------------------------
Str(s) == [k |-> "str", s |-> s, n |-> 0]

Num(n) == [k |-> "num", s |-> <<>>, n |-> n]

NaN == [k |-> "nan", s |-> <<>>, n |-> 0]

\* the value None where the code holds a data frame or None
NoneFrame == [none |-> TRUE, cols |-> <<>>, rows |-> <<>>]

Frame(cols, rows) == [none |-> FALSE, cols |-> cols, rows |-> rows]

\* an integer literal as the CSV reader and pd.to_numeric read it
IsIntText(s) ==
    \/ isdigit(s)
    \/ Len(s) > 1 /\ s[1] \in {"-", "+"} /\ isdigit(Tail(s))

IntOfText(s) ==
    IF s[1] = "-" THEN 0 - DecimalValue(Tail(s))
    ELSE IF s[1] = "+" THEN DecimalValue(Tail(s))
    ELSE DecimalValue(s)

\* pd.to_numeric(..., errors='coerce') of one text: the number, or NaN
to_numeric(s) == IF IsIntText(s) THEN Num(IntOfText(s)) ELSE NaN

\* element.astype(str)
astype_str(c) ==
    IF c.k = "str" THEN c.s
    ELSE IF c.k = "num" THEN IntToStr(c.n)
    ELSE <<"n", "a", "n">>

\* the positions of the columns labelled `name`
Labelled(df, name) == {j \in 1..Len(df.cols) : df.cols[j] = name}

\* `name in df.columns`
HasColumn(df, name) == Labelled(df, name) # {}

\* df[name] is a Series only when one column carries the label; with a
\* repeated label it is a DataFrame, which has neither .dtype nor .str
IsSeries(df, name) == Cardinality(Labelled(df, name)) = 1

Col(df, name) == CHOOSE j \in Labelled(df, name) : TRUE

\* the dtype of a column: int64 when every cell is a number, else object
IsObject(df, j) == df.rows = <<>> \/ \E r \in 1..Len(df.rows) : df.rows[r][j].k # "num"

\* df.empty
IsEmpty(df) == df.rows = <<>> \/ df.cols = <<>>

\* ------------------------------------------------------------------------
\* detect_columns (lines 25-47)
\* ------------------------------------------------------------------------
\* patterns, in the insertion order of the dict
patterns ==
    << [key |-> Year, terms |-> YearTerms],
       [key |-> Quarter, terms |-> QuarterTerms],
       [key |-> Department, terms |-> DepartmentTerms],
       [key |-> NoOfPatients, terms |-> PatientsTerms] >>

\* col.lower().replace(' ', '_').replace('.', '_').replace('-', '_')
col_clean(col) ==
    replace(replace(replace(lower(col), <<" ">>, <<"_">>), <<".">>, <<"_">>),
            <<"-">>, <<"_">>)

\* any(term in col_clean for term in search_terms)
AnyTermIn(col, search_terms) ==
    LET clean == col_clean(col)
    IN  \E t \in 1..Len(search_terms) : contains(clean, search_terms[t])

\* the mutation of FirstMatch: the scan keeps the last matching column
RECURSIVE LastMatch(_, _, _)
LastMatch(cols, j, search_terms) ==
    IF j > Len(cols) THEN 0
    ELSE LET later == LastMatch(cols, j + 1, search_terms)
         IN  IF later # 0 THEN later
             ELSE IF AnyTermIn(cols[j], search_terms) THEN j ELSE 0

\* for col in df.columns: if any(...): column_map[target_col] = col; break
\* the position of the column taken from position j on, 0 when none matches
RECURSIVE FirstMatch(_, _, _)
FirstMatch(cols, j, search_terms) ==
    IF j > Len(cols) THEN 0
    ELSE IF AnyTermIn(cols[j], search_terms) THEN j
    ELSE FirstMatch(cols, j + 1, search_terms)

\* for target_col, search_terms in patterns.items(), from pattern p on.  A
\* dict is the sequence of its items [key, value] in insertion order.
RECURSIVE DetectFrom(_, _)
DetectFrom(cols, p) ==
    IF p > Len(patterns) THEN <<>>
    ELSE LET j == FirstMatch(cols, 1, patterns[p].terms)
         IN  (IF j = 0 THEN <<>> ELSE <<[key |-> patterns[p].key, value |-> cols[j]]>>)
             \o DetectFrom(cols, p + 1)

detect_columns(df) == DetectFrom(df.cols, 1)

\* ------------------------------------------------------------------------
\* dicts
\* ------------------------------------------------------------------------
Keys(dict) == {dict[i].key : i \in 1..Len(dict)}

Values(dict) == {dict[i].value : i \in 1..Len(dict)}

Get(dict, key) == dict[CHOOSE i \in 1..Len(dict) : dict[i].key = key].value

\* dict[key] = value: in place when the key is there, else appended
SetItem(dict, key, value) ==
    IF key \in Keys(dict)
    THEN [i \in 1..Len(dict) |->
             IF dict[i].key = key THEN [key |-> key, value |-> value] ELSE dict[i]]
    ELSE Append(dict, [key |-> key, value |-> value])

\* dict.update(other)
RECURSIVE update(_, _)
update(dict, other) ==
    IF other = <<>> THEN dict
    ELSE update(SetItem(dict, other[1].key, other[1].value), Tail(other))

\* ------------------------------------------------------------------------
\* preprocess_data: the column mapping (lines 56-99)
\* ------------------------------------------------------------------------
required_cols == <<Year, Quarter, Department, NoOfPatients>>

\* [col for col in required_cols if col not in column_map]  (line 63)
MissingCols(cmap) == SelectSeq(required_cols, LAMBDA col : col \notin Keys(cmap))

\* the mutation of StillMissing: the second check finds nothing missing
NothingMissing(cmap) == <<>>

\* the check after the manual mapping (line 92); no value of the map is None
StillMissing(cmap) == SelectSeq(required_cols, LAMBDA col : col \notin Keys(cmap))

\* options = ['None'] + df.columns.tolist()  (line 79)
Options(df) == <<NoneOption>> \o df.cols

\* the mutation of ManualMap: the choice 'None' is stored like any other
RECURSIVE ManualMapKeepsNone(_, _, _)
ManualMapKeepsNone(cmap, selected, i) ==
    IF i > Len(required_cols) THEN <<>>
    ELSE LET req_col == required_cols[i]
         IN  (IF req_col \in Keys(cmap) THEN <<>>
              ELSE <<[key |-> req_col, value |-> selected[req_col]]>>)
             \o ManualMapKeepsNone(cmap, selected, i + 1)

\* manual_map (lines 74-86): for req_col in required_cols, from position i
\* on; selected[req_col] is what the select box of req_col returns
RECURSIVE ManualMap(_, _, _)
ManualMap(cmap, selected, i) ==
    IF i > Len(required_cols) THEN <<>>
    ELSE LET req_col == required_cols[i]
         IN  (IF req_col \in Keys(cmap) \/ selected[req_col] = NoneOption THEN <<>>
              ELSE <<[key |-> req_col, value |-> selected[req_col]]>>)
             \o ManualMap(cmap, selected, i + 1)

\* rename_dict = {v: k for k, v in column_map.items() if v is not None}
\* (line 98): a later item of column_map replaces an earlier one with the
\* same value
RECURSIVE RenameDict(_)
RenameDict(cmap) ==
    IF cmap = <<>> THEN <<>>
    ELSE SetItem(RenameDict(SubSeq(cmap, 1, Len(cmap) - 1)),
                 cmap[Len(cmap)].value, cmap[Len(cmap)].key)

\* df.rename(columns=rename_dict)  (line 99): every label that is a key of
\* rename_dict is replaced; the other columns stay, under their labels
rename(df, rename_dict) ==
    Frame([j \in 1..Len(df.cols) |->
              IF df.cols[j] \in Keys(rename_dict)
              THEN Get(rename_dict, df.cols[j]) ELSE df.cols[j]],
          df.rows)

\* ------------------------------------------------------------------------
\* preprocess_data: the value normalisation (lines 101-164)
\* ------------------------------------------------------------------------
valid_quarters == <<Q1, Q2, Q3, Q4>>

\* standardize_quarter (lines 127-140)
standardize_quarter(q0) ==
    LET q == upper(strip(q0))
    IN  IF q \in Range(FirstForms) THEN Q1
        ELSE IF q \in Range(SecondForms) THEN Q2
        ELSE IF q \in Range(ThirdForms) THEN Q3
        ELSE IF q \in Range(FourthForms) THEN Q4
        ELSE IF startswith(q, <<"Q">>) /\ isdigit(Tail(q)) THEN q
        ELSE q

\* lines 121-124 and 142 on one cell
QuarterCell(c) ==
    Str(standardize_quarter(
            replace(replace(upper(astype_str(c)), QUARTER, <<"Q">>), <<" ">>, <<>>)))

\* lines 107-109 on one cell of an object column
PatientCell(c) == to_numeric(replace(replace(astype_str(c), <<",">>, <<>>), <<" ">>, <<>>))

\* line 151 on one cell
YearCell(c) == Str(astype_str(c))

\* line 155 on one cell
DepartmentCell(c) == Str(strip(astype_str(c)))

\* the outcome of a step: the frame, and how the step ended
Went(df) == [end |-> "on", df |-> df]

Raised(df) == [end |-> "exception", df |-> df]

NoValid(df) == [end |-> "no_valid", df |-> df]

\* lines 103-117: the patient numbers.  patient_col.dtype raises when the
\* label is repeated (df_renamed[...] is then a DataFrame).
PatientsStep(df) ==
    IF ~HasColumn(df, NoOfPatients) THEN Went(df)
    ELSE IF ~IsSeries(df, NoOfPatients) THEN Raised(df)
    ELSE LET j == Col(df, NoOfPatients)
             converted == IF IsObject(df, j)
                          THEN Frame(df.cols,
                                     [r \in 1..Len(df.rows) |->
                                         [c \in 1..Len(df.cols) |->
                                             IF df.cols[c] = NoOfPatients THEN PatientCell(df.rows[r][c])
                                             ELSE df.rows[r][c]]])
                          ELSE df
             dropped == Frame(converted.cols,
                              SelectSeq(converted.rows, LAMBDA row : row[j].k # "nan"))
         IN  IF IsEmpty(dropped) THEN NoValid(dropped) ELSE Went(dropped)

\* lines 120-147: the quarters.  .str raises when the label is repeated.
QuarterStep(df) ==
    IF ~HasColumn(df, Quarter) THEN Went(df)
    ELSE IF ~IsSeries(df, Quarter) THEN Raised(df)
    ELSE LET j == Col(df, Quarter)
             standard == Frame(df.cols,
                               [r \in 1..Len(df.rows) |->
                                   [c \in 1..Len(df.cols) |->
                                       IF df.cols[c] = Quarter THEN QuarterCell(df.rows[r][c])
                                       ELSE df.rows[r][c]]])
         IN  Went(Frame(standard.cols,
                        SelectSeq(standard.rows,
                                   LAMBDA row : row[j].s \in Range(valid_quarters))))

\* lines 150-151: the years.  With the label repeated the right-hand side is
\* a DataFrame; assigning it back raises in the pandas releases that reindex
\* the value by the repeated labels and succeeds, column by column, in the
\* others: setitem_raises is the release the program runs on.
YearStep(df, setitem_raises) ==
    IF ~HasColumn(df, Year) THEN Went(df)
    ELSE IF ~IsSeries(df, Year) /\ setitem_raises THEN Raised(df)
    ELSE Went(Frame(df.cols,
                    [r \in 1..Len(df.rows) |->
                        [c \in 1..Len(df.cols) |->
                            IF df.cols[c] = Year THEN YearCell(df.rows[r][c])
                            ELSE df.rows[r][c]]]))

\* lines 154-155: the departments.  .str raises when the label is repeated.
DepartmentStep(df) ==
    IF ~HasColumn(df, Department) THEN Went(df)
    ELSE IF ~IsSeries(df, Department) THEN Raised(df)
    ELSE Went(Frame(df.cols,
                    [r \in 1..Len(df.rows) |->
                        [c \in 1..Len(df.cols) |->
                            IF df.cols[c] = Department THEN DepartmentCell(df.rows[r][c])
                            ELSE df.rows[r][c]]]))

\* lines 97-164: rename, then the four steps in order; the first step that
\* does not go on ends the function
Normalize(df, cmap, setitem_raises) ==
    LET df_renamed == rename(df, RenameDict(cmap))
        p == PatientsStep(df_renamed)
        q == QuarterStep(p.df)
        y == YearStep(q.df, setitem_raises)
        d == DepartmentStep(y.df)
    IN  IF p.end # "on" THEN p
        ELSE IF q.end # "on" THEN q
        ELSE IF y.end # "on" THEN y
        ELSE IF d.end # "on" THEN d
        ELSE [end |-> "success", df |-> d.df]

\* ------------------------------------------------------------------------
\* The page script: department selection and aggregation (lines 186-295)
\* ------------------------------------------------------------------------
\* sorted(set of strings)
RECURSIVE SortedStrings(_)
SortedStrings(S) ==
    IF S = {} THEN <<>>
    ELSE LET least == CHOOSE x \in S : \A y \in S \ {x} : StrLess(x, y)
         IN  <<least>> \o SortedStrings(S \ {least})

\* sorted(df_processed['Department'].astype(str).unique())  (line 203)
DepartmentOptions(df) ==
    LET j == Col(df, Department)
    IN  SortedStrings({astype_str(df.rows[r][j]) : r \in 1..Len(df.rows)})

\* df_processed[df_processed['Department'] == selected_department]  (line 230)
DepartmentRows(df, department) ==
    LET j == Col(df, Department)
    IN  Frame(df.cols, SelectSeq(df.rows, LAMBDA row : row[j].s = department))

\* Series.sum() of the patient numbers of a sequence of rows
RECURSIVE SumColumn(_, _)
SumColumn(rows, j) ==
    IF rows = <<>> THEN 0 ELSE rows[1][j].n + SumColumn(Tail(rows), j)

\* the metrics (lines 236-240)
Metrics(ddf) ==
    [total |-> SumColumn(ddf.rows, Col(ddf, NoOfPatients)),
     years |-> Cardinality({ddf.rows[r][Col(ddf, Year)].s : r \in 1..Len(ddf.rows)}),
     points |-> Len(ddf.rows)]

\* the mutation of GroupSum: the first row of the group instead of the sum
GroupFirst(ddf, year, quarter) ==
    LET jy == Col(ddf, Year)
        jq == Col(ddf, Quarter)
        group == SelectSeq(ddf.rows,
                            LAMBDA row : row[jy].s = year /\ row[jq].s = quarter)
    IN  IF group = <<>> THEN 0 ELSE group[1][Col(ddf, NoOfPatients)].n

\* ['No. of Patients'].sum() of one group (line 243); 0 for an empty group
GroupSum(ddf, year, quarter) ==
    LET jy == Col(ddf, Year)
        jq == Col(ddf, Quarter)
    IN  SumColumn(SelectSeq(ddf.rows,
                             LAMBDA row : row[jy].s = year /\ row[jq].s = quarter),
                  Col(ddf, NoOfPatients))

\* the mutation of groupby: observed=True, only the pairs some row has
groupby_observed(ddf) ==
    LET jy == Col(ddf, Year)
        jq == Col(ddf, Quarter)
        years == SortedStrings({ddf.rows[r][jy].s : r \in 1..Len(ddf.rows)})
        all == [i \in 1..(Len(years) * Len(valid_quarters)) |->
                   LET year == years[((i - 1) \div Len(valid_quarters)) + 1]
                       quarter == valid_quarters[((i - 1) % Len(valid_quarters)) + 1]
                   IN  [Year |-> year, Quarter |-> quarter,
                        Patients |-> GroupSum(ddf, year, quarter)]]
    IN  SelectSeq(all, LAMBDA g : \E r \in 1..Len(ddf.rows) :
                                     /\ ddf.rows[r][jy].s = g.Year
                                     /\ ddf.rows[r][jq].s = g.Quarter)

\* department_df.groupby(['Year', 'Quarter'], as_index=False,
\* observed=False)['No. of Patients'].sum()  (line 243).  Quarter is a
\* Categorical of the four valid quarters, and with observed=False the
\* result holds every pair of a year of the rows with each category, the
\* groups no row falls in with the sum 0; the groups come sorted.
groupby(ddf) ==
    LET jy == Col(ddf, Year)
        years == SortedStrings({ddf.rows[r][jy].s : r \in 1..Len(ddf.rows)})
    IN  [i \in 1..(Len(years) * Len(valid_quarters)) |->
            LET year == years[((i - 1) \div Len(valid_quarters)) + 1]
                quarter == valid_quarters[((i - 1) % Len(valid_quarters)) + 1]
            IN  [Year |-> year, Quarter |-> quarter,
                 Patients |-> GroupSum(ddf, year, quarter)]]

\* the position of a quarter among the categories
QuarterCode(quarter) == Position(quarter, valid_quarters)

\* the order of sort_values(['Year', 'Quarter'])
KeyLess(a, b) ==
    \/ StrLess(a.Year, b.Year)
    \/ a.Year = b.Year /\ QuarterCode(a.Quarter) < QuarterCode(b.Quarter)

\* the order of sort_values(['Quarter', 'Year'])
SwappedKeyLess(a, b) ==
    \/ QuarterCode(a.Quarter) < QuarterCode(b.Quarter)
    \/ a.Quarter = b.Quarter /\ StrLess(a.Year, b.Year)

\* one insertion of the sort, by KeyLess
RECURSIVE Insert(_, _)
Insert(x, sorted) ==
    IF sorted = <<>> THEN <<x>>
    ELSE IF KeyLess(x, sorted[1]) THEN <<x>> \o sorted
    ELSE <<sorted[1]>> \o Insert(x, Tail(sorted))

RECURSIVE InsertSwapped(_, _)
InsertSwapped(x, sorted) ==
    IF sorted = <<>> THEN <<x>>
    ELSE IF SwappedKeyLess(x, sorted[1]) THEN <<x>> \o sorted
    ELSE <<sorted[1]>> \o InsertSwapped(x, Tail(sorted))

\* the mutation of sort_values: the keys in the other order
RECURSIVE sort_values_swapped(_)
sort_values_swapped(chart) ==
    IF chart = <<>> THEN <<>>
    ELSE InsertSwapped(chart[Len(chart)],
                       sort_values_swapped(SubSeq(chart, 1, Len(chart) - 1)))

\* chart_data.sort_values(['Year', 'Quarter'])  (line 244)
RECURSIVE sort_values(_)
sort_values(chart) ==
    IF chart = <<>> THEN <<>>
    ELSE Insert(chart[Len(chart)], sort_values(SubSeq(chart, 1, Len(chart) - 1)))

\* chart_data.pivot(index='Year', columns='Quarter',
\*                  values='No. of Patients').fillna(0)  (line 286)
pivot_fillna(chart) ==
    [year \in {chart[i].Year : i \in 1..Len(chart)} |->
        [quarter \in Range(valid_quarters) |->
            IF \E i \in 1..Len(chart) : chart[i].Year = year /\ chart[i].Quarter = quarter
            THEN (CHOOSE g \in Range(chart) : g.Year = year /\ g.Quarter = quarter).Patients
            ELSE 0]]

\* what makes lines 236-243 raise: a KeyError for a label the frame lost,
\* "Grouper for 'Year' not 1-dimensional" for a repeated Year
PanelRaises(df) ==
    \/ ~HasColumn(df, NoOfPatients)
    \/ ~HasColumn(df, Quarter)
    \/ ~IsSeries(df, Year)

\* ------------------------------------------------------------------------
\* The uploaded files the model draws from
\* ------------------------------------------------------------------------
\* the largest number of data rows of an uploaded file
MaxRows == 2

\* column headers of the uploaded files
hYr == <<"Y", "r">>
hQtr == <<"Q", "t", "r">>
hDeptDot == <<"D", "e", "p", "t", ".">>
hNumPatients == <<"N", "u", "m", " ", "P", "a", "t", "i", "e", "n", "t", "s">>
hDept == <<"D", "e", "p", "t">>
hQuarterlyPatients == <<"Q", "u", "a", "r", "t", "e", "r", "l", "y", " ", "P", "a", "t", "i", "e", "n", "t", "s">>
hPeriod == <<"P", "e", "r", "i", "o", "d">>
hVisits == <<"V", "i", "s", "i", "t", "s">>
hPatients == <<"P", "a", "t", "i", "e", "n", "t", "s">>
hNotes == <<"N", "o", "t", "e", "s">>

\* cell texts of the uploaded files
t2020 == <<"2", "0", "2", "0">>
t2021 == <<"2", "0", "2", "1">>
tFirst == <<"f", "i", "r", "s", "t">>
tLowerQ2 == <<"q", "2">>
tQuarter3 == <<"Q", "u", "a", "r", "t", "e", "r", " ", "3">>
tQ5 == <<"Q", "5">>
tER == <<"E", "R">>
tICU == <<"I", "C", "U">>
t100 == <<"1", "0", "0">>
t50 == <<"5", "0">>
tAbc == <<"a", "b", "c">>
tMinus5 == <<"-", "5">>
t1comma234 == <<"1", ",", "2", "3", "4">>
tOk == <<"o", "k">>

\* A layout is the header row of a file: for each column its header and
\* which part of a record the column holds.
Holds(header, part) == [header |-> header, part |-> part]

\* the four logical names as headers
LayoutPlain ==
    <<Holds(Year, "year"), Holds(Quarter, "quarter"), Holds(Department, "department"),
      Holds(NoOfPatients, "patients")>>

\* abbreviated headers
LayoutShort ==
    <<Holds(hYr, "year"), Holds(hQtr, "quarter"), Holds(hDeptDot, "department"),
      Holds(hNumPatients, "patients")>>

\* one header that holds terms of two fields
LayoutShared ==
    <<Holds(Year, "year"), Holds(hDept, "department"),
      Holds(hQuarterlyPatients, "patients"), Holds(hPeriod, "quarter")>>

\* no header holds a term of the patient numbers
LayoutVisits ==
    <<Holds(Year, "year"), Holds(Quarter, "quarter"), Holds(Department, "department"),
      Holds(hVisits, "patients")>>

\* a header named like the first option of the select box
LayoutNone ==
    <<Holds(Year, "year"), Holds(Quarter, "quarter"), Holds(Department, "department"),
      Holds(NoneOption, "patients")>>

\* a further column that no field is mapped to
LayoutNotes ==
    <<Holds(hYr, "year"), Holds(hQtr, "quarter"), Holds(hDept, "department"),
      Holds(hPatients, "patients"), Holds(hNotes, "note")>>

\* the further column carries the name of a logical field
LayoutSecondDepartment ==
    <<Holds(hYr, "year"), Holds(hQtr, "quarter"), Holds(hDept, "department"),
      Holds(hPatients, "patients"), Holds(Department, "note")>>

LayoutSecondYear ==
    <<Holds(hYr, "year"), Holds(hQtr, "quarter"), Holds(hDept, "department"),
      Holds(hPatients, "patients"), Holds(Year, "note")>>

\* a record of a file: what its columns hold, as text
Record(year, quarter, department, patients) ==
    [year |-> year, quarter |-> quarter, department |-> department,
     patients |-> patients, note |-> tOk]

Records(years, quarters, departments, patients) ==
    {Record(y, q, d, n) : y \in years, q \in quarters, d \in departments, n \in patients}

SeqsUpTo(S, n) == UNION {[1..k -> S] : k \in 0..n}

\* the CSV files of the given layouts with at most MaxRows records
CsvFiles(layouts, records) ==
    {[kind |-> "csv",
      cols |-> [j \in 1..Len(l) |-> l[j].header],
      rows |-> [r \in 1..Len(rs) |-> [j \in 1..Len(l) |-> rs[r][l[j].part]]]]
        : l \in layouts, rs \in SeqsUpTo(records, MaxRows)}

\* no file uploaded, and a file pd.read_csv raises on
NoFile == [kind |-> "none", cols |-> <<>>, rows |-> <<>>]

BadFile == [kind |-> "bad", cols |-> <<>>, rows |-> <<>>]

\* many layouts, one record
FilesMatch ==
    {NoFile, BadFile} \cup
    CsvFiles({LayoutPlain, LayoutShort, LayoutShared, LayoutVisits, LayoutNone,
              LayoutNotes, LayoutSecondDepartment, LayoutSecondYear},
             Records({t2021}, {tFirst}, {tER}, {t100}))

\* many quarter and patient texts
FilesNorm ==
    {NoFile, BadFile} \cup
    CsvFiles({LayoutPlain, LayoutShared, LayoutVisits, LayoutNotes,
              LayoutSecondDepartment},
             Records({t2021}, {tFirst, tQuarter3, tQ5}, {tER},
                     {t100, tAbc, tMinus5, t1comma234}))

\* many years, quarters and departments
FilesAgg ==
    {NoFile, BadFile} \cup
    CsvFiles({LayoutPlain},
             Records({t2020, t2021}, {tFirst, Q1, tLowerQ2}, {tER, tICU}, {t100, t50}))
    \cup
    CsvFiles({LayoutShort, LayoutVisits},
             Records({t2021}, {tFirst, tLowerQ2}, {tER, tICU}, {t50}))

\* ------------------------------------------------------------------------
\* One run of the page script
\* ------------------------------------------------------------------------
VARIABLES
    uploaded_file,        \* what st.file_uploader returns
    pc,                   \* where the run is
    df_raw,               \* load_data(uploaded_file)
    column_map,           \* the dict of preprocess_data, as its items in order
    selected,             \* what each manual mapping select box returned
    missing_cols,         \* the last missing_cols preprocess_data computed
    df_processed,         \* preprocess_data(df_raw.copy())
    selected_department,  \* [none, value]
    metrics,              \* the three st.metric values of the panel
    chart_data,           \* [shown, rows]: the frame both charts are drawn from
    pivot_table,          \* [shown, cells]: the table of the expander
    ui                    \* the messages written to the page, in order

vars == <<uploaded_file, pc, df_raw, column_map, selected, missing_cols, df_processed,
          selected_department, metrics, chart_data, pivot_table, ui>>

Message(level, text, fields, n) == [level |-> level, text |-> text, fields |-> fields, n |-> n]

NoDepartment == [none |-> TRUE, value |-> <<>>]

NoMetrics == [total |-> 0, years |-> 0, points |-> 0]

NoChart == [shown |-> FALSE, rows |-> <<>>]

NoPivot == [shown |-> FALSE, cells |-> <<>>]

NothingSelected == [col \in Range(required_cols) |-> NoneOption]

\* pd.read_csv (line 19): a column of integer literals is read as numbers,
\* any other column as text
read_csv(file) ==
    Frame(file.cols,
          [r \in 1..Len(file.rows) |->
              [j \in 1..Len(file.cols) |->
                  IF \A r2 \in 1..Len(file.rows) : IsIntText(file.rows[r2][j])
                  THEN Num(IntOfText(file.rows[r][j]))
                  ELSE Str(file.rows[r][j])]])

\* the state a run starts in
Start(file) ==
    /\ uploaded_file = file
    /\ pc = "load"
    /\ df_raw = NoneFrame
    /\ column_map = <<>>
    /\ selected = NothingSelected
    /\ missing_cols = <<>>
    /\ df_processed = NoneFrame
    /\ selected_department = NoDepartment
    /\ metrics = NoMetrics
    /\ chart_data = NoChart
    /\ pivot_table = NoPivot
    /\ ui = <<>>

InitMatch == \E file \in FilesMatch : Start(file)

InitNorm == \E file \in FilesNorm : Start(file)

InitAgg == \E file \in FilesAgg : Start(file)

\* lines 179-199 and 217-222: the upload and load_data
LoadData ==
    /\ pc = "load"
    /\ IF uploaded_file.kind = "none"
       THEN /\ ui' = Append(ui, Message("info", "please upload a CSV file", <<>>, 0))
            /\ df_raw' = df_raw
            /\ pc' = "panel"
       ELSE IF uploaded_file.kind = "bad"
       THEN /\ ui' = Append(ui, Message("error", "error loading CSV file", <<>>, 0))
            /\ df_raw' = NoneFrame
            /\ pc' = "panel"
       ELSE /\ ui' = Append(ui, Message("write", "raw data shape", <<>>,
                                        Len(uploaded_file.rows)))
            /\ df_raw' = read_csv(uploaded_file)
            /\ pc' = "detect"
    /\ UNCHANGED <<uploaded_file, column_map, selected, missing_cols, df_processed,
                   selected_department, metrics, chart_data, pivot_table>>

\* preprocess_data, lines 57-63: the detection
DetectColumns ==
    /\ pc = "detect"
    /\ column_map' = detect_columns(df_raw)
    /\ missing_cols' = MissingCols(column_map')
    /\ pc' = IF missing_cols' # <<>> THEN "manual" ELSE "normalize"
    /\ UNCHANGED <<uploaded_file, df_raw, selected, df_processed, selected_department,
                   metrics, chart_data, pivot_table, ui>>

\* preprocess_data, lines 65-95: the manual mapping of the missing columns,
\* each select box returning one of its options
ManualMapping ==
    /\ pc = "manual"
    /\ \E choice \in [Range(required_cols) -> Range(Options(df_raw))] :
          /\ \A col \in Keys(column_map) : choice[col] = NoneOption
          /\ selected' = choice
          /\ column_map' = update(column_map, ManualMap(column_map, choice, 1))
    /\ missing_cols' = StillMissing(column_map')
    /\ IF missing_cols' # <<>>
       THEN /\ ui' = ui \o <<Message("error", "could not detect", missing_cols, 0),
                             Message("warning", "still missing", missing_cols', 0)>>
            /\ df_processed' = NoneFrame
            /\ pc' = "select"
       ELSE /\ ui' = Append(ui, Message("error", "could not detect", missing_cols, 0))
            /\ df_processed' = df_processed
            /\ pc' = "normalize"
    /\ UNCHANGED <<uploaded_file, df_raw, selected_department, metrics, chart_data,
                   pivot_table>>

\* preprocess_data, lines 97-164: the normalisation
NormalizeValues ==
    /\ pc = "normalize"
    /\ \E setitem_raises \in BOOLEAN :
          LET result == Normalize(df_raw, column_map, setitem_raises)
          IN  IF result.end = "success"
              THEN /\ df_processed' = result.df
                   /\ ui' = Append(ui, Message("success", "successfully processed", <<>>,
                                               Len(result.df.rows)))
              ELSE IF result.end = "no_valid"
              THEN /\ df_processed' = NoneFrame
                   /\ ui' = Append(ui, Message("error", "no valid patient numbers", <<>>, 0))
              ELSE /\ df_processed' = NoneFrame
                   /\ ui' = Append(ui, Message("error", "error during preprocessing", <<>>, 0))
    /\ pc' = "select"
    /\ UNCHANGED <<uploaded_file, df_raw, column_map, selected, missing_cols,
                   selected_department, metrics, chart_data, pivot_table>>

\* lines 201-216: the department select box
SelectDepartment ==
    /\ pc = "select"
    /\ IF ~df_processed.none /\ ~IsEmpty(df_processed)
       THEN IF HasColumn(df_processed, Department)
            THEN /\ \E department \in Range(DepartmentOptions(df_processed)) :
                       selected_department' = [none |-> FALSE, value |-> department]
                 /\ ui' = Append(ui, Message("write", "available departments", <<>>,
                                             Len(DepartmentOptions(df_processed))))
            ELSE /\ selected_department' = NoDepartment
                 /\ ui' = Append(ui, Message("warning", "department column is missing", <<>>, 0))
       ELSE /\ selected_department' = NoDepartment
            /\ ui' = Append(ui, Message("info", "data processing incomplete", <<>>, 0))
    /\ pc' = "panel"
    /\ UNCHANGED <<uploaded_file, df_raw, column_map, selected, missing_cols,
                   df_processed, metrics, chart_data, pivot_table>>

\* lines 226-295: the main panel.  An exception of the panel is caught by
\* nothing: the run ends there.
MainPanel ==
    /\ pc = "panel"
    /\ IF /\ uploaded_file.kind # "none"
          /\ ~df_processed.none
          /\ ~IsEmpty(df_processed)
          /\ ~selected_department.none
          /\ selected_department.value # <<>>
       THEN IF PanelRaises(df_processed)
            THEN /\ pc' = "raised"
                 /\ UNCHANGED <<metrics, chart_data, pivot_table, ui>>
            ELSE LET department_df == DepartmentRows(df_processed, selected_department.value)
                     chart == sort_values(groupby(department_df))
                 IN  /\ metrics' = Metrics(department_df)
                     /\ chart_data' = [shown |-> TRUE, rows |-> chart]
                     /\ pivot_table' = [shown |-> TRUE, cells |-> pivot_fillna(chart)]
                     /\ ui' = Append(ui, Message("header", "patient influx analysis", <<>>, 0))
                     /\ pc' = "done"
       ELSE /\ ui' = IF uploaded_file.kind # "none"
                     THEN Append(ui, Message("info", "please complete the column mapping", <<>>, 0))
                     ELSE ui
            /\ pc' = "done"
            /\ UNCHANGED <<metrics, chart_data, pivot_table>>
    /\ UNCHANGED <<uploaded_file, df_raw, column_map, selected, missing_cols,
                   df_processed, selected_department>>

\* a change of a control starts the script again on the same upload
Rerun ==
    /\ pc \in {"done", "raised"}
    /\ pc' = "load"
    /\ df_raw' = NoneFrame
    /\ column_map' = <<>>
    /\ selected' = NothingSelected
    /\ missing_cols' = <<>>
    /\ df_processed' = NoneFrame
    /\ selected_department' = NoDepartment
    /\ metrics' = NoMetrics
    /\ chart_data' = NoChart
    /\ pivot_table' = NoPivot
    /\ ui' = <<>>
    /\ UNCHANGED uploaded_file

Next ==
    \/ LoadData
    \/ DetectColumns
    \/ ManualMapping
    \/ NormalizeValues
    \/ SelectDepartment
    \/ MainPanel
    \/ Rerun

SpecMatch == InitMatch /\ [][Next]_vars

SpecNorm == InitNorm /\ [][Next]_vars

SpecAgg == InitAgg /\ [][Next]_vars

\* ------------------------------------------------------------------------
\* Properties
\* ------------------------------------------------------------------------
\* preprocess_data has matched and, where it asked, merged the manual choices
MappingDone == ~df_raw.none /\ pc \in {"normalize", "select", "panel", "done", "raised"}

\* the logical fields column_map does not resolve, in the order of required_cols
Unresolved == SelectSeq(required_cols, LAMBDA col : \A i \in 1..Len(column_map) : column_map[i].key # col)

Said(level, text) == \E i \in 1..Len(ui) : ui[i].level = level /\ ui[i].text = text

\* C1: when a logical field is still unresolved after the manual choices are
\* merged, normalisation is not entered, preprocess_data returns None, a
\* "still missing" warning names exactly the unresolved fields, and the run
\* selects no department and shows no metrics, chart or table.
C1_UnresolvedBlocksNormalization ==
    (MappingDone /\ Unresolved # <<>>) =>
        /\ pc # "normalize"
        /\ df_processed.none
        /\ \E i \in 1..Len(ui) :
              ui[i].level = "warning" /\ ui[i].text = "still missing" /\ ui[i].fields = Unresolved
        /\ ~Said("success", "successfully processed")
        /\ selected_department.none
        /\ metrics = NoMetrics
        /\ ~chart_data.shown
        /\ ~pivot_table.shown

\* a run that ended blocked, a field unresolved
C1_Witness == pc = "done" /\ ~df_raw.none /\ Unresolved # <<>> /\ df_processed.none

\* the retained rows of a frame
RowsOf(df) == {df.rows[r] : r \in 1..Len(df.rows)}

\* C2: whenever preprocess_data returns a frame, every retained row has a
\* Quarter among Q1..Q4 and a patient number that is a number.
C2_RetainedRowsValid ==
    (pc \in {"select", "panel", "done", "raised"} /\ ~df_processed.none) =>
        /\ IsSeries(df_processed, Quarter)
        /\ IsSeries(df_processed, NoOfPatients)
        /\ \A row \in RowsOf(df_processed) :
              /\ row[Col(df_processed, Quarter)].k = "str"
              /\ row[Col(df_processed, Quarter)].s \in {Q1, Q2, Q3, Q4}
              /\ row[Col(df_processed, NoOfPatients)].k = "num"

\* C3: preprocess_data never reports success with no row retained.
C3_NoSuccessWithoutRows ==
    \A i \in 1..Len(ui) : ui[i].level = "success" => ui[i].n > 0

\* C5: every patient number of a returned frame is non-negative.
C5_PatientCountNonNegative ==
    (~df_processed.none /\ IsSeries(df_processed, NoOfPatients)) =>
        \A row \in RowsOf(df_processed) :
            LET cell == row[Col(df_processed, NoOfPatients)]
            IN  cell.k = "num" => cell.n >= 0

\* the frame without the columns no field is mapped to
MappedOnly(df) ==
    LET keep == SelectSeq([j \in 1..Len(df.cols) |-> j],
                          LAMBDA j : df.cols[j] \in Values(column_map))
    IN  Frame([i \in 1..Len(keep) |-> df.cols[keep[i]]],
              [r \in 1..Len(df.rows) |-> [i \in 1..Len(keep) |-> df.rows[r][keep[i]]]])

\* the rows of a frame as their values of the logical fields it has
FieldRows(df) ==
    [r \in 1..Len(df.rows) |->
        [i \in 1..Len(required_cols) |->
            IF IsSeries(df, required_cols[i])
            THEN df.rows[r][Col(df, required_cols[i])] ELSE NaN]]

\* C6: the columns no field is mapped to take no part: the frame and the
\* frame without them normalise, under the same mapping, to the same outcome
\* and the same retained rows of the four fields.
C6_UnmappedColumnsIgnored ==
    (pc = "select" /\ ~df_raw.none /\ Unresolved = <<>>) =>
        \A setitem_raises \in BOOLEAN :
            LET alone == Normalize(MappedOnly(df_raw), column_map, setitem_raises)
            IN  /\ df_processed.none <=> alone.end # "success"
                /\ ~df_processed.none => FieldRows(df_processed) = FieldRows(alone.df)

\* the name a column header is matched under, character by character
NormalName(col) ==
    [i \in 1..Len(col) |->
        IF col[i] \in {" ", ".", "-"} THEN "_" ELSE lower_char(col[i])]

\* the positions of the raw columns whose name holds a term of pattern p
Hits(p) ==
    {j \in 1..Len(df_raw.cols) :
        \E t \in 1..Len(patterns[p].terms) :
            \E i \in 1..Len(df_raw.cols[j]) :
                /\ i + Len(patterns[p].terms[t]) - 1 <= Len(df_raw.cols[j])
                /\ \A n \in 1..Len(patterns[p].terms[t]) :
                      NormalName(df_raw.cols[j])[i + n - 1] = patterns[p].terms[t][n]}

\* C7: each logical field is mapped, whatever the other fields are mapped
\* to, to the first raw column in column order whose normalised name holds
\* one of the field's terms, and is absent from the detection when no column
\* does; "Num Patients" is taken for the patient numbers and "Yr" for the year.
C7_DetectFirstMatch ==
    (~df_raw.none /\ pc \in {"manual", "normalize", "select", "panel", "done", "raised"}) =>
        /\ \A p \in 1..Len(patterns) :
              IF Hits(p) = {}
              THEN pc = "manual" => patterns[p].key \notin Keys(column_map)
              ELSE /\ patterns[p].key \in Keys(column_map)
                   /\ Get(column_map, patterns[p].key)
                          = df_raw.cols[CHOOSE j \in Hits(p) : \A j2 \in Hits(p) : j <= j2]
        /\ hNumPatients \in Range(df_raw.cols) => Get(column_map, NoOfPatients) = hNumPatients
        /\ hYr \in Range(df_raw.cols) => Get(column_map, Year) = hYr

\* the detection gave one raw column to two fields
C7_Witness ==
    /\ pc = "normalize"
    /\ \E i \in 1..Len(column_map) : \E j \in 1..Len(column_map) :
          i # j /\ column_map[i].value = column_map[j].value

\* C8: every item of column_map maps a logical field, once, to a column of
\* the raw table; a field left at 'None' in its select box that the
\* detection did not find stays out of column_map.
C8_MappingNamesExistingColumns ==
    ~df_raw.none =>
        /\ \A i \in 1..Len(column_map) :
              /\ column_map[i].key \in Range(required_cols)
              /\ column_map[i].value \in Range(df_raw.cols)
              /\ \A j \in 1..Len(column_map) : column_map[j].key = column_map[i].key => j = i
        /\ \A p \in 1..Len(patterns) :
              (Hits(p) = {} /\ selected[patterns[p].key] = NoneOption)
                  => patterns[p].key \notin Keys(column_map)

\* a manual choice was merged: the field is mapped to the column chosen
C8_Witness ==
    /\ pc = "normalize"
    /\ \E col \in Range(required_cols) :
          /\ selected[col] # NoneOption
          /\ col \in Keys(column_map)
          /\ Get(column_map, col) = selected[col]

\* the rows of df_processed of the selected department
SelectedRows ==
    {r \in 1..Len(df_processed.rows) :
        df_processed.rows[r][Col(df_processed, Department)].s = selected_department.value}

\* the sum of the patient numbers of a set of rows of df_processed
RECURSIVE PatientsOf(_)
PatientsOf(R) ==
    IF R = {} THEN 0
    ELSE LET r == CHOOSE x \in R : TRUE
         IN  df_processed.rows[r][Col(df_processed, NoOfPatients)].n + PatientsOf(R \ {r})

RowsWith(year, quarter) ==
    {r \in SelectedRows :
        /\ df_processed.rows[r][Col(df_processed, Year)].s = year
        /\ df_processed.rows[r][Col(df_processed, Quarter)].s = quarter}

\* the upload of the scenario: (2021, first, ER, 100) and (2021, Q1, ER, 50)
ScenarioUpload ==
    /\ uploaded_file.cols = <<Year, Quarter, Department, NoOfPatients>>
    /\ uploaded_file.rows = <<<<t2021, tFirst, tER, t100>>, <<t2021, Q1, tER, t50>>>>
    /\ selected_department.value = tER

\* C4 as stated: chart_data holds an entry only for a pair some row of the
\* selected department has; the scenario gives exactly {(2021, Q1): 150}.
C4_OnlyObservedPairs ==
    chart_data.shown =>
        /\ \A i \in 1..Len(chart_data.rows) :
              RowsWith(chart_data.rows[i].Year, chart_data.rows[i].Quarter) # {}
        /\ ScenarioUpload =>
              chart_data.rows = <<[Year |-> t2021, Quarter |-> Q1, Patients |-> 150]>>

\* C4 as amended: chart_data holds exactly one entry for every pair of a year
\* of the selected department's rows with each of Q1..Q4; an entry carries
\* the sum over the rows with its pair, 0 when there is none, and the pivoted
\* table shows the same numbers; the scenario gives (2021, Q1): 150 and 0
\* for (2021, Q2), (2021, Q3), (2021, Q4).
C4_EveryQuarterOfEveryYear ==
    chart_data.shown =>
        /\ \A r \in SelectedRows : \A quarter \in {Q1, Q2, Q3, Q4} :
              \E i \in 1..Len(chart_data.rows) :
                  /\ chart_data.rows[i].Year = df_processed.rows[r][Col(df_processed, Year)].s
                  /\ chart_data.rows[i].Quarter = quarter
        /\ \A i \in 1..Len(chart_data.rows) :
              /\ \E r \in SelectedRows :
                    df_processed.rows[r][Col(df_processed, Year)].s = chart_data.rows[i].Year
              /\ chart_data.rows[i].Quarter \in {Q1, Q2, Q3, Q4}
              /\ chart_data.rows[i].Patients
                     = PatientsOf(RowsWith(chart_data.rows[i].Year, chart_data.rows[i].Quarter))
              /\ pivot_table.cells[chart_data.rows[i].Year][chart_data.rows[i].Quarter]
                     = chart_data.rows[i].Patients
              /\ \A j \in 1..Len(chart_data.rows) :
                    (/\ chart_data.rows[j].Year = chart_data.rows[i].Year
                     /\ chart_data.rows[j].Quarter = chart_data.rows[i].Quarter) => j = i
        /\ ScenarioUpload =>
              chart_data.rows = <<[Year |-> t2021, Quarter |-> Q1, Patients |-> 150],
                                  [Year |-> t2021, Quarter |-> Q2, Patients |-> 0],
                                  [Year |-> t2021, Quarter |-> Q3, Patients |-> 0],
                                  [Year |-> t2021, Quarter |-> Q4, Patients |-> 0]>>

\* the scenario ran to the end and the charts were drawn
C4_Witness == pc = "done" /\ chart_data.shown /\ ScenarioUpload

RECURSIVE ChartTotal(_)
ChartTotal(chart) == IF chart = <<>> THEN 0 ELSE chart[1].Patients + ChartTotal(Tail(chart))

\* C9: the patient numbers of chart_data add up to the sum over the rows of
\* the selected department, which is the "Total Patients" metric.
C9_SeriesSumEqualsDepartmentSum ==
    chart_data.shown =>
        /\ ChartTotal(chart_data.rows) = PatientsOf(SelectedRows)
        /\ metrics.total = PatientsOf(SelectedRows)
        /\ metrics.points = Cardinality(SelectedRows)

\* two rows of the selected department, 100 and 50 patients, fell into one group
C9_Witness ==
    /\ chart_data.shown
    /\ metrics.total = 150
    /\ \E r1 \in SelectedRows : \E r2 \in SelectedRows :
          /\ r1 # r2
          /\ \E i \in 1..Len(chart_data.rows) :
                {r1, r2} \subseteq RowsWith(chart_data.rows[i].Year, chart_data.rows[i].Quarter)

\* the rows of a file in another order
RowOrders(n) == {f \in [1..n -> 1..n] : \A i \in 1..n : \E j \in 1..n : f[j] = i}

Reordered(file, f) ==
    [kind |-> file.kind, cols |-> file.cols,
     rows |-> [r \in 1..Len(file.rows) |-> file.rows[f[r]]]]

\* chart_data of a run on `file` with the mapping and the selection of this run
ChartOf(file) ==
    LET normal == Normalize(read_csv(file), column_map, FALSE).df
    IN  sort_values(groupby(DepartmentRows(normal, selected_department.value)))

\* C10: chart_data is in ascending string order of Year and, within a year,
\* in the order Q1 < Q2 < Q3 < Q4, and is the same for every order of the
\* rows of the uploaded file.
C10_SeriesOrdered ==
    chart_data.shown =>
        /\ \A i \in 1..Len(chart_data.rows) : \A j \in 1..Len(chart_data.rows) :
              i < j =>
                  \/ StrLess(chart_data.rows[i].Year, chart_data.rows[j].Year)
                  \/ /\ chart_data.rows[i].Year = chart_data.rows[j].Year
                     /\ \E a \in 1..4 : \E b \in 1..4 :
                           /\ a < b
                           /\ chart_data.rows[i].Quarter = <<Q1, Q2, Q3, Q4>>[a]
                           /\ chart_data.rows[j].Quarter = <<Q1, Q2, Q3, Q4>>[b]
        /\ \A f \in RowOrders(Len(uploaded_file.rows)) :
              ChartOf(Reordered(uploaded_file, f)) = chart_data.rows

\* the file has the later year first and both years are in the series
C10_Witness ==
    /\ chart_data.shown
    /\ Len(uploaded_file.rows) = 2
    /\ StrLess(uploaded_file.rows[2][1], uploaded_file.rows[1][1])
    /\ \E i \in 1..Len(chart_data.rows) : chart_data.rows[i].Year = t2020
    /\ \E i \in 1..Len(chart_data.rows) : chart_data.rows[i].Year = t2021
====
